---------------------------- MODULE Spec2Model ----------------------------
(***************************************************************************)
(* A model of the two display tools of the repository:                     *)
(*   - the Nextion panel tool (.wpsd-nextion-text.py): port resolution,    *)
(*     frame encoding and the main program;                                *)
(*   - the OLED tool (.wpsd-oled.text.py): configuration resolution, the   *)
(*     two-line text layout and the main program.                          *)
(* A Python str is a sequence of Unicode code points, a bytes object a     *)
(* sequence of numbers in 0..255.  A call that may raise returns a record  *)
(* [exc, val]: exc is "none" and val the result, or exc names the          *)
(* exception raised.                                                       *)
(***************************************************************************)
EXTENDS Integers, Sequences, FiniteSets, TLC

VARIABLES
    \* ---- panel tool ----
    pc,             \* position of the panel tool's process
    cfg,            \* /etc/mmdvmhost as configparser holds it (the four keys read)
    argv,           \* sys.argv; argv[1] is the program path (Python's argv[0])
    displayPort,    \* get_display_port's local displayPort, once computed
    port,           \* the main program's port (the value get_display_port returned)
    serialState,    \* "unopened", "open" or "closed"
    writes,         \* the bytes objects handed to serialInterface.write, in order
                    \* (the argument of a call that raised included)
    output,         \* what the process printed, as message tags
    exitStatus,     \* the process's exit status, meaningful when pc = "exited"
    exc,            \* "none", or the exception that ended the process
    transportFailed,\* whether serial.Serial(...) or a write raised SerialException
    pathExists,     \* os.path.exists(displayPort): "unknown" until it is asked
    \* ---- OLED tool ----
    opc, ocfg, oargs, settings, device, shown, oout, oexit, ofailed,
    \* ---- text layout (draw_text) ----
    lpc, lin, lout

panelVars == <<pc, cfg, argv, displayPort, port, serialState, writes, output,
               exitStatus, exc, transportFailed, pathExists>>
oledVars == <<opc, ocfg, oargs, settings, device, shown, oout, oexit, ofailed>>
layoutVars == <<lpc, lin, lout>>
vars == <<panelVars, oledVars, layoutVars>>

---------------------------------------------------------------------------
(* Results of calls that may raise. *)
Ok(v) == [exc |-> "none", val |-> v]
Raise(e) == [exc |-> e, val |-> <<>>]

(* An optional str: a configuration option that may be absent, a variable  *)
(* that may be None.                                                       *)
None == [present |-> FALSE, value |-> <<>>]
Some(s) == [present |-> TRUE, value |-> s]

---------------------------------------------------------------------------
(* str.strip(): drops leading and trailing whitespace.  The ASCII          *)
(* whitespace characters are modelled.                                     *)
IsSpace(c) == c \in {9, 10, 11, 12, 13, 32}

RECURSIVE LStrip(_)
LStrip(s) == IF s # <<>> /\ IsSpace(Head(s)) THEN LStrip(Tail(s)) ELSE s

RECURSIVE RStrip(_)
RStrip(s) ==
    IF s # <<>> /\ IsSpace(s[Len(s)]) THEN RStrip(SubSeq(s, 1, Len(s) - 1)) ELSE s

Strip(s) == RStrip(LStrip(s))

(* configparser.ConfigParser() interpolates on get (BasicInterpolation):   *)
(* a '%' that is followed by neither '%' nor '(' raises                    *)
(* InterpolationSyntaxError.  The values drawn below hold no "%%" and no   *)
(* "%(", so a value that passes is returned as it is.                      *)
HasBadPercent(s) ==
    \E i \in 1..Len(s) :
        /\ s[i] = 37
        /\ (i = Len(s) \/ s[i + 1] \notin {37, 40})

(* config.get(section, key): NoSectionError / NoOptionError when the       *)
(* option is absent.                                                       *)
ConfigGet(opt) ==
    IF ~opt.present THEN Raise("NoOptionError")
    ELSE IF HasBadPercent(opt.value) THEN Raise("InterpolationSyntaxError")
    ELSE Ok(opt.value)

---------------------------------------------------------------------------
(* String literals of the panel tool. *)
DefaultPort == <<47, 100, 101, 118, 47, 116, 116, 121, 65, 77, 65, 48>>  \* "/dev/ttyAMA0"
NextionDriverPort ==                                        \* "/dev/ttyNextionDriver"
    <<47, 100, 101, 118, 47, 116, 116, 121, 78, 101, 120, 116, 105, 111, 110,
      68, 114, 105, 118, 101, 114>>
NextionName == <<78, 101, 120, 116, 105, 111, 110>>         \* "Nextion"
ModemName == <<109, 111, 100, 101, 109>>                    \* "modem"
DashC == <<45, 99>>                                         \* "-c"
RefCommand == <<114, 101, 102, 32, 48>>                     \* "ref 0"

(* get_display_port, lines 35-46: the branch taken when display == "Nextion". *)
NextionBranch(c) ==
    LET n == ConfigGet(c.NextionPort) IN
    IF n.exc = "NoOptionError" THEN Ok(DefaultPort)
    ELSE IF n.exc # "none" THEN Raise(n.exc)
    ELSE LET nextion_port == Strip(n.val) IN
         IF nextion_port = NextionDriverPort
         THEN LET d == ConfigGet(c.DriverPort) IN
              IF d.exc = "NoOptionError" THEN Ok(nextion_port)
              ELSE IF d.exc # "none" THEN Raise(d.exc)
              ELSE LET driver_port == Strip(d.val) IN
                   Ok(IF driver_port # <<>> THEN driver_port ELSE nextion_port)
         ELSE Ok(nextion_port)

(* Mutant: the "modem" indirection is taken for the default port only. *)
ModemBranch_DefaultOnly(c, p) ==
    IF p = ModemName /\ ~c.NextionPort.present
    THEN LET m == ConfigGet(c.UARTPort) IN
         IF m.exc = "NoOptionError" THEN Ok(p)
         ELSE IF m.exc # "none" THEN Raise(m.exc)
         ELSE LET modem_port == Strip(m.val) IN
              Ok(IF modem_port # <<>> THEN modem_port ELSE p)
    ELSE Ok(p)

(* get_display_port, lines 48-54: the "modem" indirection. *)
ModemBranch(c, p) ==
    IF p = ModemName
    THEN LET m == ConfigGet(c.UARTPort) IN
         IF m.exc = "NoOptionError" THEN Ok(p)
         ELSE IF m.exc # "none" THEN Raise(m.exc)
         ELSE LET modem_port == Strip(m.val) IN
              Ok(IF modem_port # <<>> THEN modem_port ELSE p)
    ELSE Ok(p)

(* get_display_port, lines 23-54: the port before the existence check. *)
ResolvePort(c) ==
    LET g == ConfigGet(c.Display) IN
    IF g.exc \notin {"none", "NoOptionError"} THEN Raise(g.exc)
    ELSE LET display == IF g.exc = "none" THEN Some(Strip(g.val)) ELSE None
             p == IF display = Some(NextionName) THEN NextionBranch(c)
                  ELSE Ok(DefaultPort)
         IN  IF p.exc # "none" THEN p ELSE ModemBranch(c, p.val)

---------------------------------------------------------------------------
(* Frame encoding. *)
MMDVM_SERIAL == 128
FrameStart == 224
Terminator == <<255, 255, 255>>

NEXTION_FIELDS ==
    << <<116, 48>>, <<116, 49>>, <<116, 50>>, <<116, 53>>,       \* t0 t1 t2 t5
       <<116, 50, 48>>, <<116, 51, 48>>, <<116, 51, 49>>, <<116, 51, 50>> >>
                                                                 \* t20 t30 t31 t32

(* UTF-8 of one code point. *)
Utf8(cp) ==
    IF cp < 128 THEN <<cp>>
    ELSE IF cp < 2048 THEN <<192 + (cp \div 64), 128 + (cp % 64)>>
    ELSE IF cp < 65536
         THEN <<224 + (cp \div 4096), 128 + ((cp \div 64) % 64), 128 + (cp % 64)>>
    ELSE <<240 + (cp \div 262144), 128 + ((cp \div 4096) % 64),
           128 + ((cp \div 64) % 64), 128 + (cp % 64)>>

IsSurrogate(cp) == cp \in 55296..57343

(* The UTF-8 bytes of every code point of s, in order (by halves, to keep   *)
(* the evaluation shallow).                                                *)
RECURSIVE EncodeBytes(_)
EncodeBytes(s) ==
    IF s = <<>> THEN <<>>
    ELSE IF Len(s) = 1 THEN Utf8(s[1])
    ELSE LET h == Len(s) \div 2 IN
         EncodeBytes(SubSeq(s, 1, h)) \o EncodeBytes(SubSeq(s, h + 1, Len(s)))

(* str.encode(): UTF-8; a lone surrogate (an undecodable byte of the       *)
(* command line, escaped by Python) raises UnicodeEncodeError.             *)
Encode(s) ==
    IF \E i \in 1..Len(s) : IsSurrogate(s[i]) THEN Raise("UnicodeEncodeError")
    ELSE Ok(EncodeBytes(s))

(* Mutant: a two-byte terminator. *)
MakeNextionCommand_ShortTerminator(commandString) ==
    LET e == Encode(commandString) IN
    IF e.exc # "none" THEN e ELSE Ok(e.val \o <<255, 255>>)

MakeNextionCommand(commandString) ==
    LET e == Encode(commandString) IN
    IF e.exc # "none" THEN e ELSE Ok(e.val \o Terminator)

MakeSetTextCommandString(field, value) ==
    field \o <<46, 116, 120, 116, 61, 34>> \o value \o <<34>>    \* {field}.txt="{value}"

(* Mutant: the length byte counts the payload only, not the header. *)
MakeModemCommand_PayloadLength(nextionCommand) ==
    LET frameLength == Len(nextionCommand) IN
    IF frameLength > 255 THEN Raise("ValueError")
    ELSE Ok(<<FrameStart, frameLength, MMDVM_SERIAL>> \o nextionCommand)

(* bytearray([0xe0, frameLength, MMDVM_SERIAL]) raises ValueError when an  *)
(* element is not in range(0, 256).                                        *)
MakeModemCommand(nextionCommand) ==
    LET frameLength == Len(nextionCommand) + 3 IN
    IF frameLength > 255 THEN Raise("ValueError")
    ELSE Ok(<<FrameStart, frameLength, MMDVM_SERIAL>> \o nextionCommand)

(* The command SetTextValue hands to SendModemCommand. *)
SetTextFrame(field, value) ==
    LET n == MakeNextionCommand(MakeSetTextCommandString(field, value)) IN
    IF n.exc # "none" THEN n ELSE MakeModemCommand(n.val)

(* The command ClearAllFields sends last. *)
RefreshFrame ==
    LET n == MakeNextionCommand(RefCommand) IN
    IF n.exc # "none" THEN n ELSE MakeModemCommand(n.val)

(* Mutant: the refresh is sent first, the field clears after it. *)
ClearAllCommands_RefreshFirst ==
    [i \in 1..(Len(NEXTION_FIELDS) + 1) |->
        IF i = 1 THEN RefreshFrame ELSE SetTextFrame(NEXTION_FIELDS[i - 1], <<>>)]

(* The commands of ClearAllFields, in the order they are sent. *)
ClearAllCommands ==
    [i \in 1..(Len(NEXTION_FIELDS) + 1) |->
        IF i <= Len(NEXTION_FIELDS) THEN SetTextFrame(NEXTION_FIELDS[i], <<>>)
        ELSE RefreshFrame]

---------------------------------------------------------------------------
(* The OLED tool: configuration resolution. *)

(* An optional int. *)
NoInt == [present |-> FALSE, n |-> 0]
SomeInt(k) == [present |-> TRUE, n |-> k]

(* The value of a digit character in the given base, -1 when it is none. *)
DigitVal(ch, base) ==
    LET v == IF ch \in 48..57 THEN ch - 48
             ELSE IF ch \in 97..122 THEN ch - 87
             ELSE IF ch \in 65..90 THEN ch - 55
             ELSE -1
    IN  IF v < base THEN v ELSE -1

RECURSIVE DigitsValue(_, _)
DigitsValue(ds, base) ==
    IF ds = <<>> THEN 0
    ELSE DigitsValue(SubSeq(ds, 1, Len(ds) - 1), base) * base + DigitVal(ds[Len(ds)], base)

(* int(s, base) for base 10 and 16: whitespace is stripped, a sign and,    *)
(* in base 16, a 0x prefix are allowed; anything else raises ValueError.   *)
(* (Digit-group underscores and non-ASCII digits are not drawn below.)     *)
ParseInt(s, base) ==
    LET t == Strip(s)
        negative == t # <<>> /\ t[1] = 45
        unsigned == IF t # <<>> /\ t[1] \in {43, 45} THEN Tail(t) ELSE t
        prefixed == /\ base = 16
                    /\ Len(unsigned) >= 2
                    /\ unsigned[1] = 48
                    /\ unsigned[2] \in {120, 88}
        digits == IF prefixed THEN SubSeq(unsigned, 3, Len(unsigned)) ELSE unsigned
    IN  IF digits = <<>> \/ \E i \in 1..Len(digits) : DigitVal(digits[i], base) < 0
        THEN Raise("ValueError")
        ELSE Ok(IF negative THEN 0 - DigitsValue(digits, base)
                ELSE DigitsValue(digits, base))

(* config.getint(section, key): int(config.get(section, key)). *)
ConfigGetInt(opt) ==
    LET g == ConfigGet(opt) IN
    IF g.exc # "none" THEN g ELSE ParseInt(g.val, 10)

DefaultAddress == 60                                   \* 0x3C

(* What get_config_settings returns when it fails: None, None, None. *)
ConfigFailure(log) ==
    [screen_type |-> "None", address |-> NoInt, rotate |-> NoInt, log |-> log]

(* Lines 67-77, the option is present: screen_type and address after Type. *)
TypeSettings(c) ==
    LET t == ConfigGetInt(c.Type) IN
    IF t.exc = "ValueError"
    THEN [exc |-> "none", screen_type |-> "None", address |-> NoInt,
          log |-> <<"warning_type_format">>]
    ELSE IF t.exc # "none"
    THEN [exc |-> t.exc, screen_type |-> "None", address |-> NoInt, log |-> <<>>]
    ELSE IF t.val = 3
    THEN [exc |-> "none", screen_type |-> "type3", address |-> SomeInt(DefaultAddress),
          log |-> <<>>]
    ELSE IF t.val = 6
    THEN [exc |-> "none", screen_type |-> "type6", address |-> SomeInt(DefaultAddress),
          log |-> <<>>]
    ELSE [exc |-> "none", screen_type |-> "None", address |-> NoInt,
          log |-> <<"warning_type_unsupported">>]

(* Mutant: the Address option is read as a decimal number. *)
AddressSetting_Decimal(c, address) ==
    IF ~c.Address.present THEN [exc |-> "none", address |-> address, log |-> <<>>]
    ELSE LET g == ConfigGet(c.Address)
             a == ParseInt(g.val, 10)
         IN  IF g.exc # "none" THEN [exc |-> g.exc, address |-> address, log |-> <<>>]
             ELSE IF a.exc = "none"
             THEN [exc |-> "none", address |-> SomeInt(a.val), log |-> <<>>]
             ELSE IF ~address.present
             THEN [exc |-> "TypeError", address |-> address, log |-> <<>>]
             ELSE [exc |-> "none", address |-> address,
                   log |-> <<"warning_address_format">>]

(* Lines 79-83: the address after the Address option.  The warning of line *)
(* 83 formats the address so far with #04x, a TypeError when it is None.   *)
AddressSetting(c, address) ==
    IF ~c.Address.present THEN [exc |-> "none", address |-> address, log |-> <<>>]
    ELSE LET g == ConfigGet(c.Address)
             a == ParseInt(g.val, 16)
         IN  IF g.exc # "none" THEN [exc |-> g.exc, address |-> address, log |-> <<>>]
             ELSE IF a.exc = "none"
             THEN [exc |-> "none", address |-> SomeInt(a.val), log |-> <<>>]
             ELSE IF ~address.present
             THEN [exc |-> "TypeError", address |-> address, log |-> <<>>]
             ELSE [exc |-> "none", address |-> address,
                   log |-> <<"warning_address_format">>]

(* Lines 85-96: rotate_config_value. *)
RotateSetting(c) ==
    IF ~c.Rotate.present THEN [exc |-> "none", rotate |-> 0, log |-> <<"info_no_rotate">>]
    ELSE LET r == ConfigGetInt(c.Rotate) IN
         IF r.exc = "ValueError"
         THEN [exc |-> "none", rotate |-> 0, log |-> <<"warning_rotate_format">>]
         ELSE IF r.exc # "none" THEN [exc |-> r.exc, rotate |-> 0, log |-> <<>>]
         ELSE IF r.val \notin {0, 1}
         THEN [exc |-> "none", rotate |-> 0, log |-> <<"warning_rotate_value">>]
         ELSE [exc |-> "none", rotate |-> r.val, log |-> <<>>]

(* get_config_settings, lines 53-102. *)
GetConfigSettings(c) ==
    IF ~c.fileExists THEN ConfigFailure(<<"error_no_config_file">>)
    ELSE IF ~c.hasSection THEN ConfigFailure(<<"error_no_section">>)
    ELSE IF ~c.Type.present THEN ConfigFailure(<<"error_no_type">>)
    ELSE LET t == TypeSettings(c)
             a == AddressSetting(c, t.address)
             r == RotateSetting(c)
         IN  IF t.exc # "none" THEN ConfigFailure(t.log \o <<"error_reading_config">>)
             ELSE IF a.exc # "none"
             THEN ConfigFailure(t.log \o a.log \o <<"error_reading_config">>)
             ELSE IF r.exc # "none"
             THEN ConfigFailure(t.log \o a.log \o r.log \o <<"error_reading_config">>)
             ELSE [screen_type |-> t.screen_type, address |-> a.address,
                   rotate |-> SomeInt(r.rotate), log |-> t.log \o a.log \o r.log]

---------------------------------------------------------------------------
(* The OLED tool: the layout of draw_text, lines 115-127.  Python's // is  *)
(* the floor division, as \div is.                                         *)
Max(a, b) == IF a >= b THEN a ELSE b

(* Lines 118-119. *)
CenterX(width, text_width) == Max(0, (width - text_width) \div 2)

Overflows(p, height, text_height_2) == p.y2 + text_height_2 > height

(* Lines 121-122. *)
PrimaryTier(height, text_height_1, text_height_2) ==
    LET total_h == text_height_1 + text_height_2
        spacing == Max(1, (height - total_h) \div 3)
        y1 == spacing
    IN  [y1 |-> y1, y2 |-> y1 + text_height_1 + spacing]

(* Line 124: the tuple assignment reads y1 before it is assigned, so y2    *)
(* is computed from the primary tier's y1.                                 *)
SecondTier(height, text_height_1, text_height_2) ==
    LET total_h == text_height_1 + text_height_2
        spacing == Max(0, (height - total_h) \div 3)
        y1 == PrimaryTier(height, text_height_1, text_height_2).y1
    IN  [y1 |-> spacing, y2 |-> y1 + text_height_1 + spacing]

(* Line 126. *)
ThirdTier(text_height_1) == [y1 |-> 0, y2 |-> text_height_1 + 1]

(* Mutant: the second line is pinned to the bottom and the first line is   *)
(* left where the third tier put it, at 0, without the max.                *)
FourthTier_NoClamp(height, text_height_1, text_height_2) ==
    LET y2 == height - text_height_2 IN
    [y1 |-> y2 - text_height_1 - 1, y2 |-> y2]

(* Line 127. *)
FourthTier(height, text_height_1, text_height_2) ==
    LET y2 == height - text_height_2 IN
    [y1 |-> Max(0, y2 - text_height_1 - 1), y2 |-> y2]

(* Lines 121-127: y1 and y2. *)
PlaceLines(height, text_height_1, text_height_2) ==
    LET p1 == PrimaryTier(height, text_height_1, text_height_2)
        p2 == SecondTier(height, text_height_1, text_height_2)
        p3 == ThirdTier(text_height_1)
    IN  IF ~Overflows(p1, height, text_height_2) THEN p1
        ELSE IF ~Overflows(p2, height, text_height_2) THEN p2
        ELSE IF ~Overflows(p3, height, text_height_2) THEN p3
        ELSE FourthTier(height, text_height_1, text_height_2)

(* Lines 115-127: where draw_text puts the two lines. *)
TextLayout(width, height, w1, h1, w2, h2) ==
    LET p == PlaceLines(height, h1, h2) IN
    [x1 |-> CenterX(width, w1), y1 |-> p.y1, x2 |-> CenterX(width, w2), y2 |-> p.y2]

---------------------------------------------------------------------------
(* Inputs of the panel tool. *)

(* The longest value drawn for a set-text command: with the field "t0" the *)
(* frame of a value of MaxValueLen - 1 characters has 255 bytes.           *)
MaxValueLen == 241

Rep(c, n) == [i \in 1..n |-> c]

PanelDisplayValues ==
    {None, Some(<<>>), Some(NextionName), Some(<<10>> \o NextionName),
     Some(<<79, 76, 69, 68>>),                         \* "OLED"
     Some(<<37>>)}                                     \* "%"
PanelNextionPortValues ==
    {None, Some(<<>>), Some(NextionDriverPort), Some(ModemName),
     Some(<<10>> \o ModemName),
     Some(<<47, 100, 101, 118, 47, 116, 116, 121, 85, 83, 66, 48>>)}  \* "/dev/ttyUSB0"
PanelDriverPortValues ==
    {None, Some(<<>>), Some(ModemName),
     Some(<<47, 100, 101, 118, 47, 116, 116, 121, 85, 83, 66, 51>>)}  \* "/dev/ttyUSB3"
PanelUARTPortValues ==
    {None, Some(<<>>),
     Some(<<47, 100, 101, 118, 47, 116, 116, 121, 65, 67, 77, 48>>),  \* "/dev/ttyACM0"
     Some(<<37>>)}

PanelConfigs ==
    [Display : PanelDisplayValues, NextionPort : PanelNextionPortValues,
     DriverPort : PanelDriverPortValues, UARTPort : PanelUARTPortValues]

ProgramPath == <<110, 120>>                            \* "nx"
FieldArgs == {<<116, 48>>, <<116, 50, 48>>}            \* "t0" "t20"
ValueArgs ==
    {<<>>, <<72, 69, 76, 76, 79>>,                     \* "" "HELLO"
     <<97, 34, 98>>,                                   \* a"b
     <<233>>, <<8364>>, <<128512>>,                    \* one character of 2, 3, 4 bytes
     <<56575>>}                                        \* a lone surrogate, U+DCFF
    \cup {Rep(65, n) : n \in {MaxValueLen - 1, MaxValueLen}}

PanelArgvs ==
    {<<ProgramPath>>, <<ProgramPath, DashC>>, <<ProgramPath, DashC, <<116, 48>> >>,
     <<ProgramPath, <<116, 48>> >>,
     <<ProgramPath, <<116, 48>>, <<72, 73>>, <<120>> >>,
     <<ProgramPath, <<122, 122>>, <<72, 73>> >>}            \* a field the panel lacks
    \cup {<<ProgramPath, f, v>> : f \in FieldArgs, v \in ValueArgs}

(* sys.argv[i], with Python's index. *)
Arg(i) == argv[i + 1]

Unresolved ==
    [status |-> "unresolved", screen_type |-> "None", address |-> NoInt,
     rotate |-> NoInt, log |-> <<>>]
NothingShown == [what |-> "nothing"]
NoDevice == [kind |-> "none", address |-> 0, rotate |-> 0]

OledIdle ==
    /\ opc = "idle" /\ ocfg = <<>> /\ oargs = <<>> /\ settings = Unresolved
    /\ device = NoDevice /\ shown = NothingShown /\ oout = <<>> /\ oexit = 0
    /\ ofailed = FALSE
LayoutIdle == lpc = "idle" /\ lin = <<>> /\ lout = <<>>
PanelIdle ==
    /\ pc = "idle" /\ cfg = <<>> /\ argv = <<>> /\ displayPort = None /\ port = None
    /\ serialState = "unopened" /\ writes = <<>> /\ output = <<>> /\ exitStatus = 0
    /\ exc = "none" /\ transportFailed = FALSE /\ pathExists = "unknown"

Init ==
    /\ pc = "start"
    /\ cfg \in PanelConfigs
    /\ argv \in PanelArgvs
    /\ displayPort = None
    /\ port = None
    /\ serialState = "unopened"
    /\ writes = <<>>
    /\ output = <<>>
    /\ exitStatus = 0
    /\ exc = "none"
    /\ transportFailed = FALSE
    /\ pathExists = "unknown"
    /\ OledIdle
    /\ LayoutIdle

---------------------------------------------------------------------------
(* The panel tool's process. *)

(* sys.exit(status), or the end of the script. *)
Exit(status, printed) ==
    /\ pc' = "exited"
    /\ exitStatus' = status
    /\ output' = output \o printed

(* An exception no handler catches: the interpreter prints the traceback   *)
(* and exits with status 1.                                                *)
Uncaught(e) ==
    /\ exc' = e
    /\ Exit(1, <<"traceback">>)

(* Lines 16-20: import serial, configparser. *)
ImportModules ==
    /\ pc = "start"
    /\ \E ok \in BOOLEAN :
        IF ok THEN pc' = "resolve" /\ UNCHANGED <<exitStatus, output>>
        ELSE Exit(1, <<>>)
    /\ UNCHANGED <<cfg, argv, displayPort, port, serialState, writes, exc,
                   transportFailed, pathExists>>
    /\ UNCHANGED <<oledVars, layoutVars>>

(* Mutant: the port is returned whether or not its path exists. *)
GetDisplayPort_NoExistenceCheck ==
    /\ pc = "resolve"
    /\ LET r == ResolvePort(cfg) IN
       IF r.exc # "none"
       THEN /\ Uncaught(r.exc)
            /\ UNCHANGED <<displayPort, port, pathExists>>
       ELSE /\ displayPort' = Some(r.val)
            /\ \E found \in BOOLEAN :
                /\ r.val = <<>> => ~found
                /\ pathExists' = IF found THEN "yes" ELSE "no"
                /\ port' = Some(r.val)
                /\ pc' = "main"
                /\ UNCHANGED <<exitStatus, output>>
            /\ UNCHANGED exc
    /\ UNCHANGED <<cfg, argv, serialState, writes, transportFailed>>
    /\ UNCHANGED <<oledVars, layoutVars>>

(* Line 97 and get_display_port, lines 22-59. *)
GetDisplayPort ==
    /\ pc = "resolve"
    /\ LET r == ResolvePort(cfg) IN
       IF r.exc # "none"
       THEN /\ Uncaught(r.exc)
            /\ UNCHANGED <<displayPort, port, pathExists>>
       ELSE /\ displayPort' = Some(r.val)
            /\ \E found \in BOOLEAN :
                /\ r.val = <<>> => ~found          \* os.path.exists("") is False
                /\ IF found
                   THEN /\ pathExists' = "yes"
                        /\ port' = Some(r.val)
                        /\ pc' = "main"
                        /\ UNCHANGED <<exitStatus, output>>
                   ELSE /\ pathExists' = "no"
                        /\ Exit(0, <<>>)
                        /\ UNCHANGED port
            /\ UNCHANGED exc
    /\ UNCHANGED <<cfg, argv, serialState, writes, transportFailed>>
    /\ UNCHANGED <<oledVars, layoutVars>>

(* Lines 99-105: the checks before the serial port is opened. *)
MainArgs ==
    /\ pc = "main"
    /\ IF ~port.present THEN Exit(1, <<"no_display_port">>)
       ELSE IF Len(argv) < 2 THEN Exit(0, <<"usage">>)
       ELSE pc' = "open" /\ UNCHANGED <<exitStatus, output>>
    /\ UNCHANGED <<cfg, argv, displayPort, port, serialState, writes, exc,
                   transportFailed, pathExists>>
    /\ UNCHANGED <<oledVars, layoutVars>>

(* The handler of lines 122-124: print the exception, sys.exit(). *)
SerialExceptionHandler ==
    /\ transportFailed' = TRUE
    /\ Exit(0, <<"serial_exception">>)

(* Line 108: serial.Serial(port=port, baudrate=MODEM_BAUDRATE). *)
OpenSerial ==
    /\ pc = "open"
    /\ \E ok \in BOOLEAN :
        IF ok
        THEN /\ serialState' = "open"
             /\ pc' = "dispatch"
             /\ UNCHANGED <<exitStatus, output, transportFailed>>
        ELSE /\ SerialExceptionHandler
             /\ UNCHANGED serialState
    /\ UNCHANGED <<cfg, argv, displayPort, port, writes, exc, pathExists>>
    /\ UNCHANGED <<oledVars, layoutVars>>

(* Lines 110-111 and ClearAllFields, lines 88-91.  failAt = 0: every write *)
(* succeeds; failAt = j: the j-th call of write raises SerialException.    *)
ClearAllFields ==
    /\ pc = "dispatch"
    /\ Arg(1) = DashC
    /\ \E failAt \in 0..Len(ClearAllCommands) :
        IF failAt = 0
        THEN /\ writes' = writes \o [i \in 1..Len(ClearAllCommands) |-> ClearAllCommands[i].val]
             /\ pc' = "close"
             /\ UNCHANGED <<exitStatus, output, transportFailed>>
        ELSE /\ writes' = writes \o [i \in 1..failAt |-> ClearAllCommands[i].val]
             /\ SerialExceptionHandler
    /\ UNCHANGED <<cfg, argv, displayPort, port, serialState, exc, pathExists>>
    /\ UNCHANGED <<oledVars, layoutVars>>

(* Lines 112-115 and SetTextValue, lines 84-86. *)
SetTextValue ==
    /\ pc = "dispatch"
    /\ Arg(1) # DashC
    /\ Len(argv) = 3
    /\ LET command == SetTextFrame(Arg(1), Arg(2)) IN
       IF command.exc # "none"
       THEN /\ Uncaught(command.exc)
            /\ UNCHANGED <<writes, transportFailed>>
       ELSE /\ writes' = writes \o <<command.val>>
            /\ \E ok \in BOOLEAN :
                IF ok THEN pc' = "close" /\ UNCHANGED <<exitStatus, output, transportFailed>>
                ELSE SerialExceptionHandler
            /\ UNCHANGED exc
    /\ UNCHANGED <<cfg, argv, displayPort, port, serialState, pathExists>>
    /\ UNCHANGED <<oledVars, layoutVars>>

(* Lines 116-118: neither -c nor exactly two arguments. *)
InvalidArguments ==
    /\ pc = "dispatch"
    /\ Arg(1) # DashC
    /\ Len(argv) # 3
    /\ Exit(0, <<"invalid_arguments">>)
    /\ UNCHANGED <<cfg, argv, displayPort, port, serialState, writes, exc,
                   transportFailed, pathExists>>
    /\ UNCHANGED <<oledVars, layoutVars>>

(* Line 120, then the end of the script. *)
CloseSerial ==
    /\ pc = "close"
    /\ serialState' = "closed"
    /\ Exit(0, <<>>)
    /\ UNCHANGED <<cfg, argv, displayPort, port, writes, exc, transportFailed,
                   pathExists>>
    /\ UNCHANGED <<oledVars, layoutVars>>

Next ==
    \/ ImportModules
    \/ GetDisplayPort
    \/ MainArgs
    \/ OpenSerial
    \/ ClearAllFields
    \/ SetTextValue
    \/ InvalidArguments
    \/ CloseSerial

Spec == Init /\ [][Next]_vars

---------------------------------------------------------------------------
(* Inputs of the OLED tool. *)
OledTypeValues ==
    {None, Some(<<51>>), Some(<<54>>), Some(<<48, 51>>),    \* "3" "6" "03"
     Some(<<55>>), Some(<<120, 51>>), Some(<<37>>)}         \* "7" "x3" "%"
OledAddressValues ==
    {None, Some(<<48, 120, 51, 67>>), Some(<<51, 100>>),    \* "0x3C" "3d"
     Some(<<49, 48>>), Some(<<122, 122>>), Some(<<37>>)}    \* "10" "zz" "%"
OledRotateValues ==
    {None, Some(<<48>>), Some(<<49>>), Some(<<50>>),        \* "0" "1" "2"
     Some(<<45, 49>>), Some(<<111, 110>>), Some(<<37>>)}    \* "-1" "on" "%"

OledConfigs ==
    {[fileExists |-> FALSE, hasSection |-> FALSE, Type |-> None, Address |-> None,
      Rotate |-> None],
     [fileExists |-> TRUE, hasSection |-> FALSE, Type |-> None, Address |-> None,
      Rotate |-> None]}
    \cup [fileExists : {TRUE}, hasSection : {TRUE}, Type : OledTypeValues,
          Address : OledAddressValues, Rotate : OledRotateValues]

(* What argparse hands back: argc is len(sys.argv); parsed is FALSE when   *)
(* parse_args itself rejects the command line (and exits with status 2).   *)
DefaultSize == 12
OledArg(argc, parsed, clear, text1, size1, text2, size2) ==
    [argc |-> argc, parsed |-> parsed, clear |-> clear, text1 |-> text1,
     size1 |-> size1, text2 |-> text2, size2 |-> size2]
SomeText == Some(<<72, 73>>)                            \* "HI"
OledArgs ==
    {OledArg(1, TRUE, FALSE, None, DefaultSize, None, DefaultSize),
     OledArg(2, FALSE, FALSE, None, DefaultSize, None, DefaultSize),
     OledArg(2, TRUE, TRUE, None, DefaultSize, None, DefaultSize),
     OledArg(4, TRUE, TRUE, SomeText, DefaultSize, None, DefaultSize),
     OledArg(5, TRUE, FALSE, SomeText, DefaultSize, SomeText, DefaultSize),
     OledArg(9, TRUE, FALSE, SomeText, 20, SomeText, 16),
     OledArg(3, TRUE, FALSE, SomeText, DefaultSize, None, DefaultSize),
     OledArg(5, TRUE, FALSE, SomeText, DefaultSize, Some(<<>>), DefaultSize),
     OledArg(7, TRUE, FALSE, SomeText, 0, SomeText, DefaultSize),
     OledArg(7, TRUE, FALSE, SomeText, DefaultSize, SomeText, -1)}

(* The panel the tool drives, line 168. *)
device_width == 128
device_height == 64

(* Glyph metrics get_text_dimensions may report while the tool runs. *)
RunGlyphWidths == {40, 130}
RunGlyphHeights == {20, 33}

InitOled ==
    /\ opc = "start"
    /\ ocfg \in OledConfigs
    /\ oargs \in OledArgs
    /\ settings = Unresolved
    /\ device = NoDevice
    /\ shown = NothingShown
    /\ oout = <<>>
    /\ oexit = 0
    /\ ofailed = FALSE
    /\ PanelIdle
    /\ LayoutIdle

---------------------------------------------------------------------------
(* The OLED tool's process. *)
OledExit(status, printed) ==
    /\ opc' = "exited"
    /\ oexit' = status
    /\ oout' = oout \o printed

(* Lines 18-26: the imports. *)
OledImport ==
    /\ opc = "start"
    /\ \E ok \in BOOLEAN :
        IF ok THEN opc' = "args" /\ UNCHANGED <<oexit, oout>>
        ELSE OledExit(1, <<"error_import">>)
    /\ UNCHANGED <<ocfg, oargs, settings, device, shown, ofailed>>
    /\ UNCHANGED <<panelVars, layoutVars>>

(* Lines 148-155: parse_args and the checks on the arguments. *)
OledParseArgs ==
    /\ opc = "args"
    /\ IF ~oargs.parsed THEN OledExit(2, <<"usage_error">>)
       ELSE IF oargs.argc = 1 THEN OledExit(0, <<"help">>)
       ELSE IF /\ ~oargs.clear
               /\ \/ ~oargs.text1.present \/ oargs.text1.value = <<>>
                  \/ ~oargs.text2.present \/ oargs.text2.value = <<>>
       THEN OledExit(2, <<"usage_error">>)
       ELSE IF ~oargs.clear /\ (oargs.size1 <= 0 \/ oargs.size2 <= 0)
       THEN OledExit(2, <<"usage_error">>)
       ELSE opc' = "config" /\ UNCHANGED <<oexit, oout>>
    /\ UNCHANGED <<ocfg, oargs, settings, device, shown, ofailed>>
    /\ UNCHANGED <<panelVars, layoutVars>>

(* Lines 157-160: the settings as main consumes them. *)
ConsumeSettings(r) ==
    [status |-> IF r.screen_type = "None" \/ ~r.address.present \/ ~r.rotate.present
                THEN "failed" ELSE "ok",
     screen_type |-> r.screen_type, address |-> r.address, rotate |-> r.rotate,
     log |-> r.log]

(* Lines 157-162. *)
OledGetConfig ==
    /\ opc = "config"
    /\ settings' = ConsumeSettings(GetConfigSettings(ocfg))
    /\ IF settings'.status = "failed"
       THEN OledExit(1, settings'.log \o <<"error_no_oled_config">>)
       ELSE /\ opc' = "device"
            /\ oout' = oout \o settings'.log
            /\ UNCHANGED oexit
    /\ UNCHANGED <<ocfg, oargs, device, shown, ofailed>>
    /\ UNCHANGED <<panelVars, layoutVars>>

(* Line 162. *)
RotationValue(rotate_config_value) == IF rotate_config_value = 1 THEN 2 ELSE 0

(* Lines 167-178, with the handlers of lines 185-187: the bus is opened    *)
(* and the device object made, either of which may raise.                  *)
OledOpenDevice ==
    /\ opc = "device"
    /\ \E outcome \in {"ok", "FileNotFoundError", "OSError", "Exception"} :
        IF outcome = "ok"
        THEN IF settings.screen_type = "type3"
             THEN /\ device' = [kind |-> "ssd1306", address |-> settings.address.n,
                              rotate |-> RotationValue(settings.rotate.n)]
                  /\ opc' = "show"
                  /\ UNCHANGED <<oexit, oout, ofailed>>
             ELSE IF settings.screen_type = "type6"
             THEN /\ device' = [kind |-> "sh1106", address |-> settings.address.n,
                              rotate |-> RotationValue(settings.rotate.n)]
                  /\ opc' = "show"
                  /\ UNCHANGED <<oexit, oout, ofailed>>
             ELSE /\ OledExit(1, <<"error_screen_type">>)
                  /\ UNCHANGED <<device, ofailed>>
        ELSE /\ ofailed' = TRUE
             /\ OledExit(1, <<"error", outcome>>)
             /\ UNCHANGED device
    /\ UNCHANGED <<ocfg, oargs, settings, shown>>
    /\ UNCHANGED <<panelVars, layoutVars>>

(* Lines 180-181, clear_display (lines 104-106) and line 189: an error of  *)
(* device.clear() is printed and not raised again.                         *)
OledClear ==
    /\ opc = "show"
    /\ oargs.clear
    /\ \E ok \in BOOLEAN :
        IF ok
        THEN /\ shown' = [what |-> "cleared"]
             /\ OledExit(0, <<>>)
             /\ UNCHANGED ofailed
        ELSE /\ ofailed' = TRUE
             /\ OledExit(0, <<"error_clearing_display">>)
             /\ UNCHANGED shown
    /\ UNCHANGED <<ocfg, oargs, settings, device>>
    /\ UNCHANGED <<panelVars, layoutVars>>

(* Line 183, draw_text (lines 108-134), the handlers of lines 185-187 and  *)
(* line 189: an error of device.display is printed and raised again.       *)
OledDrawText ==
    /\ opc = "show"
    /\ ~oargs.clear
    /\ \E w1 \in RunGlyphWidths, w2 \in RunGlyphWidths,
          h1 \in RunGlyphHeights, h2 \in RunGlyphHeights, ok \in BOOLEAN :
        IF ok
        THEN /\ shown' = [what |-> "text", w1 |-> w1, h1 |-> h1, w2 |-> w2, h2 |-> h2,
                          at |-> TextLayout(device_width, device_height, w1, h1, w2, h2)]
             /\ OledExit(0, <<>>)
             /\ UNCHANGED ofailed
        ELSE /\ ofailed' = TRUE
             /\ OledExit(1, <<"error_drawing_text", "error_OSError">>)
             /\ UNCHANGED shown
    /\ UNCHANGED <<ocfg, oargs, settings, device>>
    /\ UNCHANGED <<panelVars, layoutVars>>

NextOled ==
    \/ OledImport
    \/ OledParseArgs
    \/ OledGetConfig
    \/ OledOpenDevice
    \/ OledClear
    \/ OledDrawText

SpecOled == InitOled /\ [][NextOled]_vars

---------------------------------------------------------------------------
(* draw_text's layout as a function of the raster and the glyph metrics.   *)

(* Rasters drawn besides the tool's own: squares of 0..MaxSmallRaster.     *)
MaxSmallRaster == 6
(* Glyph heights are drawn up to the raster's height plus HeightExcess.    *)
HeightExcess == 2

Rasters ==
    {[width |-> device_width, height |-> device_height]}
    \cup {[width |-> k, height |-> k] : k \in 0..MaxSmallRaster}

GlyphWidths(width) == {0, 40, width, width + 1}

LayoutInputs ==
    UNION {[width : {r.width}, height : {r.height},
            w1 : GlyphWidths(r.width), w2 : GlyphWidths(r.width),
            h1 : 0..(r.height + HeightExcess), h2 : 0..(r.height + HeightExcess)]
           : r \in Rasters}

InitLayout ==
    /\ lpc = "call"
    /\ lin \in LayoutInputs
    /\ lout = <<>>
    /\ PanelIdle
    /\ OledIdle

(* Lines 115-127 of draw_text. *)
DrawTextLayout ==
    /\ lpc = "call"
    /\ lout' = TextLayout(lin.width, lin.height, lin.w1, lin.h1, lin.w2, lin.h2)
    /\ lpc' = "done"
    /\ UNCHANGED lin
    /\ UNCHANGED <<panelVars, oledVars>>

NextLayout == DrawTextLayout

SpecLayout == InitLayout /\ [][NextLayout]_vars

---------------------------------------------------------------------------
(* Properties of the panel tool. *)

IsPrefix(a, b) == Len(a) <= Len(b) /\ \A i \in 1..Len(a) : a[i] = b[i]

ClearRequested == Len(argv) >= 2 /\ Arg(1) = DashC
SetTextRequested == Len(argv) = 3 /\ Arg(1) # DashC

(* The nine frames of a clear, byte by byte. *)
ExpectedClearFrames ==
    << <<224, 15, 128, 116, 48, 46, 116, 120, 116, 61, 34, 34, 255, 255, 255>>,
       <<224, 15, 128, 116, 49, 46, 116, 120, 116, 61, 34, 34, 255, 255, 255>>,
       <<224, 15, 128, 116, 50, 46, 116, 120, 116, 61, 34, 34, 255, 255, 255>>,
       <<224, 15, 128, 116, 53, 46, 116, 120, 116, 61, 34, 34, 255, 255, 255>>,
       <<224, 16, 128, 116, 50, 48, 46, 116, 120, 116, 61, 34, 34, 255, 255, 255>>,
       <<224, 16, 128, 116, 51, 48, 46, 116, 120, 116, 61, 34, 34, 255, 255, 255>>,
       <<224, 16, 128, 116, 51, 49, 46, 116, 120, 116, 61, 34, 34, 255, 255, 255>>,
       <<224, 16, 128, 116, 51, 50, 46, 116, 120, 116, 61, 34, 34, 255, 255, 255>>,
       <<224, 11, 128, 114, 101, 102, 32, 48, 255, 255, 255>> >>

(* C1: a clear writes the eight empty set-text frames for t0, t1, t2, t5,  *)
(* t20, t30, t31, t32 in that order, one frame per write, then the wrapped *)
(* "ref 0" as the ninth and last write.  While writes fail the frames      *)
(* written are a prefix of those nine; a clear that reaches the close has  *)
(* written exactly the nine.                                               *)
C1_ClearAllWrites ==
    ClearRequested =>
        /\ IsPrefix(writes, ExpectedClearFrames)
        /\ (pc = "close" \/ serialState = "closed") => writes = ExpectedClearFrames

C1_Witness ==
    /\ ClearRequested
    /\ serialState = "closed"
    /\ Len(writes) = 9
    /\ writes[9] = <<224, 11, 128, 114, 101, 102, 32, 48, 255, 255, 255>>

(* The frame of a set-text command: E0, the length byte, 80, the UTF-8     *)
(* bytes of <field>.txt="<value>", FF FF FF; the length byte is the number *)
(* of bytes of the whole frame.                                            *)
IsSetTextFrame(f, field, value) ==
    LET body == EncodeBytes(field) \o <<46, 116, 120, 116, 61, 34>>
                \o EncodeBytes(value) \o <<34>>
    IN  /\ Len(f) = Len(body) + 6
        /\ f[1] = 224
        /\ f[2] = Len(f)
        /\ f[3] = 128
        /\ SubSeq(f, 4, Len(f) - 3) = body
        /\ SubSeq(f, Len(f) - 2, Len(f)) = <<255, 255, 255>>

(* C2: every frame SetTextValue writes is E0, a length byte, 80, the       *)
(* encoded <field>.txt="<value>", FF FF FF, and its length byte equals the *)
(* number of bytes of the whole frame.                                     *)
C2_SetTextFrameLayout ==
    /\ (SetTextRequested /\ writes # <<>>) =>
            /\ Len(writes) = 1
            /\ IsSetTextFrame(writes[1], Arg(1), Arg(2))
    /\ ClearRequested =>
            \A i \in 1..Len(writes) :
                i <= 8 => IsSetTextFrame(writes[i], NEXTION_FIELDS[i], <<>>)

C2_Witness ==
    /\ SetTextRequested
    /\ Arg(1) = <<116, 48>>
    /\ Arg(2) = <<8364>>
    /\ writes = << <<224, 18, 128, 116, 48, 46, 116, 120, 116, 61, 34,
                     226, 130, 172, 34, 255, 255, 255>> >>

HelloArgv == <<ProgramPath, <<116, 48>>, <<72, 69, 76, 76, 79>> >>

(* C3 as stated: the frame for field "t0" and value "HELLO" is             *)
(* E0 0F 80 74 30 2E 74 78 74 3D 22 48 45 4C 4C 4F 22 FF FF FF, its length *)
(* byte being 15.                                                          *)
C3_HelloFrameLength15 ==
    (argv = HelloArgv /\ serialState = "closed") =>
        writes[1] = <<224, 15, 128, 116, 48, 46, 116, 120, 116, 61, 34,
                      72, 69, 76, 76, 79, 34, 255, 255, 255>>

(* C3 amended: the frame for field "t0" and value "HELLO" is the 20 bytes  *)
(* E0 14 80 74 30 2E 74 78 74 3D 22 48 45 4C 4C 4F 22 FF FF FF, its length *)
(* byte being 20, the number of bytes of the frame.                        *)
C3_HelloFrameLength20 ==
    (argv = HelloArgv /\ writes # <<>>) =>
        /\ writes[1] = <<224, 20, 128, 116, 48, 46, 116, 120, 116, 61, 34,
                         72, 69, 76, 76, 79, 34, 255, 255, 255>>
        /\ Len(writes[1]) = 20

C3_Witness == argv = HelloArgv /\ Len(writes) = 1 /\ pc = "exited"

(* C4 as stated, for fields and values that are well-formed text:          *)
(* encoding never raises, whatever the field and the value and however     *)
(* long, so a set-text request that reaches SetTextValue issues exactly    *)
(* one write.                                                              *)
C4_EncodingNeverRaises ==
    (/\ SetTextRequested
     /\ serialState # "unopened"
     /\ pc # "dispatch"
     /\ \A i \in 1..Len(Arg(2)) : ~IsSurrogate(Arg(2)[i])) =>
        /\ exc = "none"
        /\ Len(writes) = 1

(* The value a lookup yields, trimmed. *)
Looked(opt) == SelectSeq(opt.value, LAMBDA ch : ~IsSpace(ch))

(* The fallback chain of C5. *)
ChainAfterNextion(c) ==
    IF c.Display.present /\ Looked(c.Display) = NextionName /\ c.NextionPort.present
    THEN IF Looked(c.NextionPort) = NextionDriverPort
         THEN IF c.DriverPort.present /\ Looked(c.DriverPort) # <<>>
              THEN Looked(c.DriverPort)
              ELSE NextionDriverPort
         ELSE Looked(c.NextionPort)
    ELSE <<47, 100, 101, 118, 47, 116, 116, 121, 65, 77, 65, 48>>

ChainPort(c) ==
    IF /\ ChainAfterNextion(c) = <<109, 111, 100, 101, 109>>
       /\ c.UARTPort.present
       /\ Looked(c.UARTPort) # <<>>
    THEN Looked(c.UARTPort)
    ELSE ChainAfterNextion(c)

C7_AbsentPortSilentExit ==
    /\ pathExists = "no" =>
            /\ pc = "exited"
            /\ exitStatus = 0
            /\ serialState = "unopened"
            /\ writes = <<>>
            /\ output = <<>>
            /\ ~port.present
    /\ port.present => pathExists = "yes"

C7_Witness ==
    /\ pathExists = "no"
    /\ pc = "exited"
    /\ ClearRequested
    /\ displayPort.present

---------------------------------------------------------------------------
(* Properties of both tools. *)

(* C6 as stated: in both tools a run in which opening the transport or     *)
(* writing to it fails ends with a non-zero exit status.                   *)
C6_TransportFailureExitsNonZero ==
    /\ (pc = "exited" /\ transportFailed) => exitStatus # 0
    /\ (opc = "exited" /\ ofailed) => oexit # 0

---------------------------------------------------------------------------
(* Properties of the OLED tool. *)

(* What the drawn option values mean. *)
TypeIs3 == ocfg.Type \in {Some(<<51>>), Some(<<48, 51>>)}
TypeIs6 == ocfg.Type = Some(<<54>>)
ExpectedAddress ==
    IF ocfg.Address = Some(<<48, 120, 51, 67>>) THEN 60
    ELSE IF ocfg.Address = Some(<<51, 100>>) THEN 61
    ELSE IF ocfg.Address = Some(<<49, 48>>) THEN 16
    ELSE 60
ExpectedRotate == IF ocfg.Rotate = Some(<<49>>) THEN 1 ELSE 0
Unreadable(opt) == opt = Some(<<37>>)

ExpectedSettingsWhenOk ==
    /\ TypeIs3 => settings.screen_type = "type3"
    /\ TypeIs6 => settings.screen_type = "type6"
    /\ settings.address = SomeInt(ExpectedAddress)
    /\ settings.rotate = SomeInt(ExpectedRotate)

(* C8 as stated: resolution fails if and only if the [OLED] section is     *)
(* missing, Type is missing, or Type is no integer or an integer other     *)
(* than 3 and 6; otherwise it yields type3 or type6, the address (the hex  *)
(* value of Address, 0x3C when absent or not valid hex) and rotate (the    *)
(* Rotate value when 0 or 1, else 0).  A bad Address or Rotate never makes *)
(* resolution fail.                                                        *)
C8_FailsOnlyOnSectionOrType ==
    settings.status # "unresolved" =>
        /\ settings.status = "failed" <=>
               (~ocfg.hasSection \/ ~ocfg.Type.present \/ ~(TypeIs3 \/ TypeIs6))
        /\ settings.status = "ok" => ExpectedSettingsWhenOk

(* C8 amended: resolution fails if and only if the [OLED] section is       *)
(* missing, Type is missing, Type is no integer or an integer other than 3 *)
(* and 6, or the value of a present Address or Rotate cannot be read from  *)
(* the configuration (configparser rejects its '%'); otherwise it yields   *)
(* the settings as stated.  An Address that is not valid hex, or a Rotate  *)
(* that is no integer or not 0 or 1, never makes resolution fail.          *)
C8_FailsOnSectionTypeOrUnreadable ==
    settings.status # "unresolved" =>
        /\ settings.status = "failed" <=>
               \/ ~ocfg.hasSection
               \/ ~ocfg.Type.present
               \/ ~(TypeIs3 \/ TypeIs6)
               \/ Unreadable(ocfg.Address)
               \/ Unreadable(ocfg.Rotate)
        /\ settings.status = "ok" => ExpectedSettingsWhenOk

C8_Witness ==
    /\ settings.status = "ok"
    /\ ocfg.Type = Some(<<54>>)
    /\ ocfg.Address = Some(<<122, 122>>)
    /\ ocfg.Rotate = Some(<<50>>)
    /\ settings.address = SomeInt(60)

---------------------------------------------------------------------------
(* Properties of the layout. *)

(* C9: with non-negative metrics, each width at most the raster's width    *)
(* and h1 + h2 at most its height, both lines lie inside the raster and do *)
(* not overlap; when at least 3 rows are spare the primary tier is used.   *)
C9_LinesInsideRaster ==
    (/\ lpc = "done"
     /\ lin.w1 <= lin.width /\ lin.w2 <= lin.width
     /\ lin.h1 + lin.h2 <= lin.height) =>
        /\ 0 <= lout.x1 /\ lout.x1 + lin.w1 <= lin.width
        /\ 0 <= lout.x2 /\ lout.x2 + lin.w2 <= lin.width
        /\ 0 <= lout.y1
        /\ lout.y1 + lin.h1 <= lout.y2
        /\ lout.y2 + lin.h2 <= lin.height
        /\ lin.height - (lin.h1 + lin.h2) >= 3 =>
               LET spacing == (lin.height - lin.h1 - lin.h2) \div 3 IN
               /\ lout.y1 = spacing
               /\ lout.y2 = spacing + lin.h1 + spacing
        /\ (lin.width = 128 /\ lin.w1 = 40) => lout.x1 = 44

C9_Witness ==
    /\ lpc = "done"
    /\ lin = [width |-> 128, height |-> 64, w1 |-> 40, h1 |-> 20, w2 |-> 40, h2 |-> 20]
    /\ lout.x1 = 44
    /\ lout.y1 = 8
    /\ lout.y2 + 20 <= 64

(* The tiered fallback as C10 states it: in the second tier y2 is derived  *)
(* from the recomputed y1.                                                 *)
StatedPlacement(height, h1, h2) ==
    LET s1 == Max(1, (height - h1 - h2) \div 3)
        s2 == Max(0, (height - h1 - h2) \div 3)
        t1 == [y1 |-> s1, y2 |-> s1 + h1 + s1]
        t2 == [y1 |-> s2, y2 |-> s2 + h1 + s2]
        t3 == [y1 |-> 0, y2 |-> h1 + 1]
        t4 == [y1 |-> Max(0, height - h2 - h1 - 1), y2 |-> height - h2]
    IN  IF t1.y2 + h2 <= height THEN t1
        ELSE IF t2.y2 + h2 <= height THEN t2
        ELSE IF t3.y2 + h2 <= height THEN t3
        ELSE t4

(* C10 as stated: y1 and y2 are those of the tiered fallback in which the  *)
(* second tier reapplies the formula to the recomputed spacing.            *)
C10_PlacementAsStated ==
    lpc = "done" =>
        /\ lout.y1 = StatedPlacement(lin.height, lin.h1, lin.h2).y1
        /\ lout.y2 = StatedPlacement(lin.height, lin.h1, lin.h2).y2

=============================================================================
